---------------------------- MODULE Spec2Model ----------------------------
(***************************************************************************)
(* Fractal-Castle: the instance generator of FractalMesh.tsx (the          *)
(* `matrices` memo) and the frontier engine of RuleBuilder.tsx (the        *)
(* `frontier` memo).                                                       *)
(*                                                                         *)
(* Numbers.  Rule fields (position, rotation, scale) and the grid step are *)
(* JavaScript doubles written as decimal literals with at most three       *)
(* decimals (0.5, 0.333, 0.25, 0.001); they are modelled as integers in    *)
(* thousandths.  Matrix entries are fixed-point integers in units of       *)
(* 1/Den, Den = 16000 = 2^7 * 125: every thousandth is a whole number of   *)
(* units and the dyadic fractions down to 2^-7 are exact, so for the rule  *)
(* pools below (halves and eighths) the products the generator forms are   *)
(* exact here exactly as they are exact in doubles.                        *)
(***************************************************************************)
EXTENDS Integers, Sequences, FiniteSets, TLC

VARIABLES
  config,                \* FractalConfig: [rules, iterations]
  pc,                    \* position inside the `matrices` computation
  i,                     \* loop counter of FractalMesh.tsx:45
  currentLevelMatrices,  \* FractalMesh.tsx:39
  allMatrices,           \* FractalMesh.tsx:43
  warnedAt,              \* iteration logged by console.warn (line 52), -1 if none
  matrices,              \* the value returned at line 98
  gridScale,             \* App state gridScale, the builder's step
  bpc,                   \* position inside the `frontier` computation
  occupied,              \* RuleBuilder.tsx:33, a Set<string> in insertion order
  rulesIndices,          \* RuleBuilder.tsx:34
  frontier,              \* RuleBuilder.tsx:87, the list returned at line 93
  heap,                  \* the rule objects alive, by address 1..Len(heap)
  rulesRef,              \* the array config.rules: the addresses of its rule objects
  prevRef,               \* the array `rules` the frontier memo still holds as its
                         \* dependency after an edit: the previous config.rules
  prevSeen,              \* what that array held when it was the current one
  event,                 \* the handler call that produced the current config
  error,                 \* App state `error`, "null" for null
  edits,                 \* the number of handler calls so far
  reading,               \* FileReader reads in flight: the texts being read
  timers,                \* pending setTimeout(() => setError(null), 3000) callbacks
  isGenerating,          \* App state isGenerating
  activeTab,             \* App state activeTab
  aiCall                 \* the promise of generateFractalConfig that handleGenerateAI
                         \* awaits: idle, pending, or settled with its outcome

genVars == <<pc, i, currentLevelMatrices, allMatrices, warnedAt, matrices>>
builderVars == <<gridScale, bpc, occupied, rulesIndices, frontier>>
appVars == <<heap, rulesRef, prevRef, prevSeen, event, error, edits, reading, timers>>
aiVars == <<isGenerating, activeTab, aiCall>>
vars == <<config, genVars, builderVars, appVars, aiVars>>

\* no call of generateFractalConfig is awaited
NoCall == [state |-> "idle", rules |-> <<>>]

----------------------------------------------------------------------------
(* Bounds of the model *)

MaxIter == 6      \* largest iteration count drawn
WideCount == 10   \* size of the wide rule set whose expansion hits the cap

(* Program constants *)

MAX_INSTANCES == 100000
\* units per 1 of a matrix entry
Den == 16 * 1000

----------------------------------------------------------------------------
(* Transform math (three.js Matrix4, column-major `elements`, 1-based) *)

ToFix(v) == v * (Den \div 1000)

FMul(x, y) == (x * y) \div Den

Identity == <<Den, 0, 0, 0,  0, Den, 0, 0,  0, 0, Den, 0,  0, 0, 0, Den>>

\* Matrix4.multiplyMatrices(a, b): te[row + 4 col] = sum over k of a[row, k] * b[k, col]
Multiply(a, b) ==
  << FMul(a[1], b[1]) + FMul(a[5], b[2]) + FMul(a[9], b[3]) + FMul(a[13], b[4]),
     FMul(a[2], b[1]) + FMul(a[6], b[2]) + FMul(a[10], b[3]) + FMul(a[14], b[4]),
     FMul(a[3], b[1]) + FMul(a[7], b[2]) + FMul(a[11], b[3]) + FMul(a[15], b[4]),
     FMul(a[4], b[1]) + FMul(a[8], b[2]) + FMul(a[12], b[3]) + FMul(a[16], b[4]),
     FMul(a[1], b[5]) + FMul(a[5], b[6]) + FMul(a[9], b[7]) + FMul(a[13], b[8]),
     FMul(a[2], b[5]) + FMul(a[6], b[6]) + FMul(a[10], b[7]) + FMul(a[14], b[8]),
     FMul(a[3], b[5]) + FMul(a[7], b[6]) + FMul(a[11], b[7]) + FMul(a[15], b[8]),
     FMul(a[4], b[5]) + FMul(a[8], b[6]) + FMul(a[12], b[7]) + FMul(a[16], b[8]),
     FMul(a[1], b[9]) + FMul(a[5], b[10]) + FMul(a[9], b[11]) + FMul(a[13], b[12]),
     FMul(a[2], b[9]) + FMul(a[6], b[10]) + FMul(a[10], b[11]) + FMul(a[14], b[12]),
     FMul(a[3], b[9]) + FMul(a[7], b[10]) + FMul(a[11], b[11]) + FMul(a[15], b[12]),
     FMul(a[4], b[9]) + FMul(a[8], b[10]) + FMul(a[12], b[11]) + FMul(a[16], b[12]),
     FMul(a[1], b[13]) + FMul(a[5], b[14]) + FMul(a[9], b[15]) + FMul(a[13], b[16]),
     FMul(a[2], b[13]) + FMul(a[6], b[14]) + FMul(a[10], b[15]) + FMul(a[14], b[16]),
     FMul(a[3], b[13]) + FMul(a[7], b[14]) + FMul(a[11], b[15]) + FMul(a[15], b[16]),
     FMul(a[4], b[13]) + FMul(a[8], b[14]) + FMul(a[12], b[15]) + FMul(a[16], b[16]) >>

makeTranslation(x, y, z) ==
  <<Den, 0, 0, 0,  0, Den, 0, 0,  0, 0, Den, 0,  ToFix(x), ToFix(y), ToFix(z), Den>>

makeScale(x, y, z) ==
  <<ToFix(x), 0, 0, 0,  0, ToFix(y), 0, 0,  0, 0, ToFix(z), 0,  0, 0, 0, Den>>

\* Math.cos / Math.sin of an angle given in thousandths of a radian, rounded
\* to the nearest 1/Den.  1571 is the three-decimal quarter turn:
\* cos(1.571) = -0.000204, sin(1.571) = 0.99999998.
Cos(t) == IF t = 0 THEN Den ELSE IF t = 1571 THEN -3 ELSE Den
Sin(t) == IF t = 0 THEN 0 ELSE IF t = 1571 THEN Den ELSE 0

\* Matrix4.makeRotationFromEuler(new Euler(x, y, z)), default order 'XYZ'
makeRotationFromEuler(x, y, z) ==
  LET cx == Cos(x)
      sx == Sin(x)
      cy == Cos(y)
      sy == Sin(y)
      cz == Cos(z)
      sz == Sin(z)
      cxcz == FMul(cx, cz)
      cxsz == FMul(cx, sz)
      sxcz == FMul(sx, cz)
      sxsz == FMul(sx, sz)
  IN  << FMul(cy, cz),  cxsz + FMul(sxcz, sy),  sxsz - FMul(cxcz, sy),  0,
         -FMul(cy, sz), cxcz - FMul(sxsz, sy),  sxcz + FMul(cxsz, sy),  0,
         sy,            -FMul(sx, cy),          FMul(cx, cy),           0,
         0,             0,                      0,                      Den >>

\* (variant: the three factors combined in the order S * R * T)
localTransformScaleFirst(rule) ==
  Multiply(Multiply(Multiply(Identity,
      makeScale(rule.scale, rule.scale, rule.scale)),
      makeRotationFromEuler(rule.rotation[1], rule.rotation[2], rule.rotation[3])),
      makeTranslation(rule.position[1], rule.position[2], rule.position[3]))

\* FractalMesh.tsx:62-86: new Matrix4().multiply(T).multiply(R).multiply(S)
localTransform(rule) ==
  Multiply(Multiply(Multiply(Identity,
      makeTranslation(rule.position[1], rule.position[2], rule.position[3])),
      makeRotationFromEuler(rule.rotation[1], rule.rotation[2], rule.rotation[3])),
      makeScale(rule.scale, rule.scale, rule.scale))

\* FractalMesh.tsx:58,88: childMatrix = parentMatrix.clone().multiply(localTransform)
childMatrix(parentMatrix, local) == Multiply(parentMatrix, local)

----------------------------------------------------------------------------
(* The generator, FractalMesh.tsx:37-99 *)

\* inner loop, lines 57-90: one child per rule, pushed in rule order
pushChildren(parentMatrix, locals) ==
  [q \in 1..Len(locals) |-> childMatrix(parentMatrix, locals[q])]

\* outer loop, lines 56-91, over the parents lo..hi of the current level in
\* order; the pushes of a range are the pushes of its two halves, in order
RECURSIVE pushLevel(_, _, _, _)
pushLevel(cur, lo, hi, locals) ==
  IF lo > hi THEN <<>>
  ELSE IF lo = hi THEN pushChildren(cur[lo], locals)
  ELSE LET mid == (lo + hi) \div 2
       IN  pushLevel(cur, lo, mid, locals) \o pushLevel(cur, mid + 1, hi, locals)

\* (variant: the two loops of lines 56-57 nested the other way round)
nextLevelMatricesRuleMajor(cur, rules) ==
  LET parents == Len(cur)
      locals == [q \in 1..Len(rules) |-> localTransform(rules[q])]
  IN  [n \in 1..(parents * Len(rules)) |->
         childMatrix(cur[((n - 1) % parents) + 1], locals[((n - 1) \div parents) + 1])]

nextLevelMatrices(cur, rules) ==
  LET locals == [q \in 1..Len(rules) |-> localTransform(rules[q])]
  IN  pushLevel(cur, 1, Len(cur), locals)

\* (variant: the projection counts the new level only)
projectedCountLevelOnly(all, cur, rules) == Len(cur) * Len(rules)

\* line 49
projectedCount(all, cur, rules) == Len(all) + (Len(cur) * Len(rules))

\* line 51
capExceeded(count) == count > MAX_INSTANCES

\* line 45
loopCondition(k, iterations) == k < iterations

\* (variant: line 43 starting the accumulation empty)
GenBeginNoRoot ==
  /\ pc = "start"
  /\ currentLevelMatrices' = <<Identity>>
  /\ allMatrices' = <<>>
  /\ i' = 0
  /\ pc' = "loop"
  /\ UNCHANGED <<config, warnedAt, matrices, builderVars, appVars, aiVars>>

\* lines 39-43
GenBegin ==
  /\ pc = "start"
  /\ currentLevelMatrices' = <<Identity>>
  /\ allMatrices' = <<Identity>>
  /\ i' = 0
  /\ pc' = "loop"
  /\ UNCHANGED <<config, warnedAt, matrices, builderVars, appVars, aiVars>>

\* (variant: the break returns the level in hand, not the accumulation)
CapBreakReturnsLevel ==
  /\ pc = "loop"
  /\ loopCondition(i, config.iterations)
  /\ capExceeded(projectedCount(allMatrices, currentLevelMatrices, config.rules))
  /\ warnedAt' = i
  /\ matrices' = currentLevelMatrices
  /\ pc' = "done"
  /\ UNCHANGED <<config, i, currentLevelMatrices, allMatrices, builderVars, appVars, aiVars>>

\* (variant: the break gives up the accumulation and returns no transform)
CapBreakReturnsNothing ==
  /\ pc = "loop"
  /\ loopCondition(i, config.iterations)
  /\ capExceeded(projectedCount(allMatrices, currentLevelMatrices, config.rules))
  /\ warnedAt' = i
  /\ matrices' = <<>>
  /\ pc' = "done"
  /\ UNCHANGED <<config, i, currentLevelMatrices, allMatrices, builderVars, appVars, aiVars>>

\* lines 45-54 with the break taken, then line 98
CapBreak ==
  /\ pc = "loop"
  /\ loopCondition(i, config.iterations)
  /\ capExceeded(projectedCount(allMatrices, currentLevelMatrices, config.rules))
  /\ warnedAt' = i
  /\ matrices' = allMatrices
  /\ pc' = "done"
  /\ UNCHANGED <<config, i, currentLevelMatrices, allMatrices, builderVars, appVars, aiVars>>

\* (variant: line 92 missing, the current level is never replaced)
ExpandLevelKeepCurrent ==
  /\ pc = "loop"
  /\ loopCondition(i, config.iterations)
  /\ ~capExceeded(projectedCount(allMatrices, currentLevelMatrices, config.rules))
  /\ currentLevelMatrices' = currentLevelMatrices
  /\ allMatrices' = allMatrices \o nextLevelMatrices(currentLevelMatrices, config.rules)
  /\ i' = i + 1
  /\ UNCHANGED <<config, pc, warnedAt, matrices, builderVars, appVars, aiVars>>

\* (variant: line 95 pushes the level just expanded from, not the new one)
ExpandLevelPushCurrent ==
  /\ pc = "loop"
  /\ loopCondition(i, config.iterations)
  /\ ~capExceeded(projectedCount(allMatrices, currentLevelMatrices, config.rules))
  /\ currentLevelMatrices' = nextLevelMatrices(currentLevelMatrices, config.rules)
  /\ allMatrices' = allMatrices \o currentLevelMatrices
  /\ i' = i + 1
  /\ UNCHANGED <<config, pc, warnedAt, matrices, builderVars, appVars, aiVars>>

\* lines 45-96, one pass without the break
ExpandLevel ==
  /\ pc = "loop"
  /\ loopCondition(i, config.iterations)
  /\ ~capExceeded(projectedCount(allMatrices, currentLevelMatrices, config.rules))
  /\ currentLevelMatrices' = nextLevelMatrices(currentLevelMatrices, config.rules)
  /\ allMatrices' = allMatrices \o currentLevelMatrices'
  /\ i' = i + 1
  /\ UNCHANGED <<config, pc, warnedAt, matrices, builderVars, appVars, aiVars>>

\* line 45 false, then line 98
LoopExit ==
  /\ pc = "loop"
  /\ ~loopCondition(i, config.iterations)
  /\ matrices' = allMatrices
  /\ pc' = "done"
  /\ UNCHANGED <<config, i, currentLevelMatrices, allMatrices, warnedAt, builderVars, appVars, aiVars>>

\* the memo of lines 37-99 as a function of the rules and the iteration
\* count: the loop of lines 45-96 from pass k on, with the accumulation all
\* and the current level cur, up to the return of line 98
RECURSIVE generateFrom(_, _, _, _, _)
generateFrom(all, cur, k, rules, iterations) ==
  IF ~loopCondition(k, iterations) THEN all
  ELSE IF capExceeded(projectedCount(all, cur, rules)) THEN all
  ELSE LET next == nextLevelMatrices(cur, rules)
       IN  generateFrom(all \o next, next, k + 1, rules, iterations)

\* lines 39-43, then the loop
generate(rules, iterations) == generateFrom(<<Identity>>, <<Identity>>, 0, rules, iterations)

----------------------------------------------------------------------------
(* Inputs of the generator *)

\* the scenario rule of the specification's section 8
RuleA == [position |-> <<0, 500, 0>>, rotation |-> <<0, 0, 0>>, scale |-> 500]
RuleB == [position |-> <<500, 0, 0>>, rotation |-> <<0, 0, 0>>, scale |-> 500]
\* a rule turned a quarter about Z
RuleC == [position |-> <<0, 0, 500>>, rotation |-> <<0, 0, 1571>>, scale |-> 500]
\* the rule the panel's addRule appends (UIOverlay.tsx:46)
RuleD == [position |-> <<0, 1000, 0>>, rotation |-> <<0, 0, 0>>, scale |-> 500]

\* the k-th of a family of distinct unrotated half-scale rules on the 1/8 grid
GridRule(k) ==
  [position |-> <<125 * (k % 8), 125 * ((k \div 8) % 8), 125 * ((k \div 64) % 8)>>,
   rotation |-> <<0, 0, 0>>, scale |-> 500]

ManyRules(n) == [k \in 1..n |-> GridRule(k)]

\* the least rule count r whose second level passes the cap: 1 + r + r^2
\* is above MAX_INSTANCES, so the generator stops with 1 + r transforms
SecondLevelCap ==
  CHOOSE r \in 1..1000 : /\ 1 + r + r * r > MAX_INSTANCES
                         /\ 1 + (r - 1) + (r - 1) * (r - 1) <= MAX_INSTANCES

SmallRuleSets ==
  { <<>>, <<RuleA>>, <<RuleD>>, <<RuleA, RuleB>>, <<RuleB, RuleA>>,
    <<RuleA, RuleC>>, <<RuleA, RuleB, RuleD>>, ManyRules(WideCount),
    ManyRules(SecondLevelCap) }

\* the rule set whose first level brings the accumulation to the cap exactly
BoundaryRuleSets == { ManyRules(MAX_INSTANCES - 1) }

GenInputs ==
  (SmallRuleSets \X ((-1)..MaxIter)) \cup (BoundaryRuleSets \X {1})

GenInit ==
  /\ \E in \in GenInputs : config = [rules |-> in[1], iterations |-> in[2]]
  /\ pc = "start"
  /\ i = 0
  /\ currentLevelMatrices = <<>>
  /\ allMatrices = <<>>
  /\ warnedAt = -1
  /\ matrices = <<>>
  /\ gridScale = 333
  /\ bpc = "unmounted"
  /\ occupied = <<>>
  /\ rulesIndices = <<>>
  /\ frontier = <<>>
  /\ heap = config.rules
  /\ rulesRef = [n \in 1..Len(config.rules) |-> n]
  /\ prevRef = <<>>
  /\ prevSeen = <<>>
  /\ event = [type |-> "mount", index |-> -1, cell |-> <<>>]
  /\ error = "null"
  /\ edits = 0
  /\ reading = <<>>
  /\ timers = 0
  /\ isGenerating = FALSE
  /\ activeTab = "render"
  /\ aiCall = NoCall

GenNext == GenBegin \/ CapBreak \/ ExpandLevel \/ LoopExit

SpecGen == GenInit /\ [][GenNext]_vars

----------------------------------------------------------------------------
(* The grid indexer, RuleBuilder.tsx:19-29.  Positions and the step are in *)
(* thousandths; a quotient is kept as numerator and denominator.            *)

\* NaN, the one non-finite number the editor can write into a rule: an
\* integer no position, step or index of the model comes near
NaN == -(2 ^ 30)

\* a + b of two doubles
Plus(a, b) == IF a = NaN \/ b = NaN THEN NaN ELSE a + b

\* Math.round(n / d) for d > 0: the nearest integer, a tie going up
MathRound(n, d) == IF n = NaN THEN NaN ELSE (2 * n + d) \div (2 * d)

\* Math.ceil(n / d) for d > 0
MathCeil(n, d) == -((-n) \div d)

\* line 21: Math.round(1 / step)
invScale(step) == MathRound(1000, step)

\* (variant: no half-cell shift for an even cell count)
offsetAlwaysZero(step) == 0

\* lines 22-23
offset(step) == IF invScale(step) % 2 = 0 THEN step \div 2 ELSE 0

\* (variant: the offset left out of the index)
toIndexNoOffset(val, step) == MathRound(val, step)

\* line 25
toIndex(val, step) == MathRound(Plus(val, -offset(step)), step)

\* line 26
toPos(idx, step) == IF idx = NaN THEN NaN ELSE idx * step + offset(step)

----------------------------------------------------------------------------
(* Cell keys: the template string `${i},${j},${k}` of lines 41, 59, 79 and  *)
(* its parse key.split(',').map(Number) of line 74.  A string is the        *)
(* sequence of its characters.                                              *)

DigitChars == <<"0", "1", "2", "3", "4", "5", "6", "7", "8", "9">>

RECURSIVE NatToString(_)
NatToString(n) ==
  IF n < 10 THEN <<DigitChars[n + 1]>>
  ELSE Append(NatToString(n \div 10), DigitChars[(n % 10) + 1])

\* String(n) of an integer
NumberToString(n) ==
  IF n = NaN THEN <<"N", "a", "N">>
  ELSE IF n < 0 THEN <<"-">> \o NatToString(-n) ELSE NatToString(n)

\* (variant: the sign lost in the key)
cellKeyUnsigned(x, y, z) ==
  NatToString(IF x < 0 THEN -x ELSE x) \o <<",">>
    \o NatToString(IF y < 0 THEN -y ELSE y) \o <<",">>
    \o NatToString(IF z < 0 THEN -z ELSE z)

cellKey(x, y, z) ==
  NumberToString(x) \o <<",">> \o NumberToString(y) \o <<",">> \o NumberToString(z)

\* String.prototype.split(',')
RECURSIVE splitFrom(_, _, _)
splitFrom(str, n, parts) ==
  IF n > Len(str) THEN parts
  ELSE IF str[n] = "," THEN splitFrom(str, n + 1, Append(parts, <<>>))
  ELSE splitFrom(str, n + 1, [parts EXCEPT ![Len(parts)] = Append(@, str[n])])

split(str) == splitFrom(str, 1, << <<>> >>)

DigitValue(c) == CHOOSE d \in 0..9 : DigitChars[d + 1] = c

RECURSIVE NatValue(_)
NatValue(str) ==
  IF Len(str) = 0 THEN 0
  ELSE 10 * NatValue(SubSeq(str, 1, Len(str) - 1)) + DigitValue(str[Len(str)])

\* Number(str) of a decimal integer string
Number(str) ==
  IF str = <<"N", "a", "N">> THEN NaN
  ELSE IF Len(str) > 0 /\ str[1] = "-" THEN -NatValue(Tail(str)) ELSE NatValue(str)

\* line 74
parseKey(key) == LET parts == split(key) IN [a \in 1..Len(parts) |-> Number(parts[a])]

----------------------------------------------------------------------------
(* Set<string> and Map<string, ...>: insertion-ordered, keys unique *)

setHas(set, key) == \E n \in 1..Len(set) : set[n] = key

setAdd(set, key) == IF setHas(set, key) THEN set ELSE Append(set, key)

\* set.add(keys[n]), set.add(keys[n + 1]), ... in order
RECURSIVE setAddAll(_, _, _)
setAddAll(set, keys, n) ==
  IF n > Len(keys) \/ Len(set) < 0 THEN set
  ELSE setAddAll(setAdd(set, keys[n]), keys, n + 1)

\* (variant: entries collected in a list, no replacement of an existing key)
mapPush(map, key, value) == Append(map, [key |-> key, value |-> value])

mapSet(map, key, value) ==
  IF \E n \in 1..Len(map) : map[n].key = key
  THEN [n \in 1..Len(map) |->
          IF map[n].key = key THEN [key |-> key, value |-> value] ELSE map[n]]
  ELSE Append(map, [key |-> key, value |-> value])

----------------------------------------------------------------------------
(* The frontier engine, RuleBuilder.tsx:32-94 *)

\* lines 38-40
ruleCell(rule, step) ==
  <<toIndex(rule.position[1], step), toIndex(rule.position[2], step),
    toIndex(rule.position[3], step)>>

\* lines 37-43: rulesIndices
rulesIndicesOf(rules, step) == [idx \in 1..Len(rules) |-> ruleCell(rules[idx], step)]

\* (variant: step 1 left out, no rule position marked)
occupiedAfterRulesNone(rules, step) == <<>>

\* lines 37-43: occupied
occupiedAfterRules(rules, step) ==
  LET cells == rulesIndicesOf(rules, step)
  IN  setAddAll(<<>>, [n \in 1..Len(cells) |-> cellKey(cells[n][1], cells[n][2], cells[n][3])], 1)

\* (variant: a search window of one cell on every side)
checkRangeUnit(step) == 1

\* line 46
checkRange(step) == MathCeil(1000, step)

\* line 53
e == 1

\* (variant: the test without the tolerance, and closed)
insideParentClosed(x, y, z, step) ==
  LET abs(v) == IF v < 0 THEN -v ELSE v
  IN  /\ abs(toPos(x, step)) <= 500
      /\ abs(toPos(y, step)) <= 500
      /\ abs(toPos(z, step)) <= 500

\* lines 50-58
insideParent(x, y, z, step) ==
  LET abs(v) == IF v < 0 THEN -v ELSE v
  IN  /\ abs(toPos(x, step)) < 500 - e
      /\ abs(toPos(y, step)) < 500 - e
      /\ abs(toPos(z, step)) < 500 - e

\* lines 47-49: the cells of the search window in loop order (x outermost)
windowCells(step) ==
  LET R == checkRange(step)
      side == 2 * R + 1
  IN  [m \in 1..(side * side * side) |->
         << ((m - 1) \div (side * side)) - R,
            (((m - 1) \div side) % side) - R,
            ((m - 1) % side) - R >>]

\* lines 45-63
occupiedAfterParent(set, step) ==
  LET inside(c) == insideParent(c[1], c[2], c[3], step)
      cells == SelectSeq(windowCells(step), inside)
  IN  setAddAll(set, [n \in 1..Len(cells) |-> cellKey(cells[n][1], cells[n][2], cells[n][3])], 1)

\* lines 67-71
neighbors ==
  << <<1, 0, 0>>, <<-1, 0, 0>>, <<0, 1, 0>>, <<0, -1, 0>>, <<0, 0, 1>>, <<0, 0, -1>> >>

\* (variant: the test of line 81 always passing)
neighborIsFreeAlways(occ, nKey) == TRUE

\* line 81
neighborIsFree(occ, nKey) == ~setHas(occ, nKey)

\* lines 75-84: the neighbours d..6 of the cell (ox, oy, oz)
RECURSIVE visitNeighbors(_, _, _, _)
visitNeighbors(map, occ, cell, d) ==
  IF d > Len(neighbors) \/ Len(map) < 0 THEN map
  ELSE LET nx == Plus(cell[1], neighbors[d][1])
           ny == Plus(cell[2], neighbors[d][2])
           nz == Plus(cell[3], neighbors[d][3])
           nKey == cellKey(nx, ny, nz)
       IN  visitNeighbors(
             IF neighborIsFree(occ, nKey) THEN mapSet(map, nKey, <<nx, ny, nz>>) ELSE map,
             occ, cell, d + 1)

\* lines 73-85: occupied.forEach from the n-th key on
RECURSIVE visitOccupied(_, _, _)
visitOccupied(map, occ, n) ==
  IF n > Len(occ) \/ Len(map) < 0 THEN map
  ELSE visitOccupied(visitNeighbors(map, occ, parseKey(occ[n]), 1), occ, n + 1)

\* lines 66-85
frontierMap(occ) == visitOccupied(<<>>, occ, 1)

\* lines 87-91
frontierList(map, step) ==
  [n \in 1..Len(map) |->
     [id |-> map[n].key,
      indices |-> map[n].value,
      position |-> <<toPos(map[n].value[1], step), toPos(map[n].value[2], step),
                     toPos(map[n].value[3], step)>>]]

\* lines 33-43; the memo runs because its dependency `rules` changed, and
\* from here on holds the current array: the previous one is dropped, and
\* the objects still alive are those of config.rules, in its order
MarkRules ==
  /\ bpc = "start"
  /\ occupied' = occupiedAfterRules(config.rules, gridScale)
  /\ rulesIndices' = rulesIndicesOf(config.rules, gridScale)
  /\ bpc' = "rules"
  /\ heap' = config.rules
  /\ rulesRef' = [n \in 1..Len(config.rules) |-> n]
  /\ prevRef' = <<>>
  /\ prevSeen' = <<>>
  /\ UNCHANGED <<config, genVars, gridScale, frontier, event, error, edits, reading, timers, aiVars>>

\* lines 45-63
MarkParent ==
  /\ bpc = "rules"
  /\ occupied' = occupiedAfterParent(occupied, gridScale)
  /\ bpc' = "parent"
  /\ UNCHANGED <<config, genVars, gridScale, rulesIndices, frontier, appVars, aiVars>>

\* lines 65-93
FindFrontier ==
  /\ bpc = "parent"
  /\ frontier' = frontierList(frontierMap(occupied), gridScale)
  /\ bpc' = "done"
  /\ UNCHANGED <<config, genVars, gridScale, occupied, rulesIndices, appVars, aiVars>>

----------------------------------------------------------------------------
(* Inputs of the frontier engine *)

MaxBuilderRules == 2   \* longest rule sequence drawn

\* the three steps the editor offers (UIOverlay.tsx:237-239)
GridSteps == {500, 333, 250}

\* positions: inside the parent volume, the panel's default, cell centres of
\* the three grids next to the parent volume, and one on the negative side
BuilderPositions ==
  { <<0, 0, 0>>, <<0, 1000, 0>>, <<750, 250, 250>>, <<666, 0, 0>>,
    <<625, 125, -125>>, <<-750, -250, 250>> }

BuilderRuleSets ==
  UNION { [1..n -> { [position |-> p, rotation |-> <<0, 0, 0>>, scale |-> 500] :
                       p \in BuilderPositions }] : n \in 0..MaxBuilderRules }

FrontierInit ==
  /\ \E rules \in BuilderRuleSets : config = [rules |-> rules, iterations |-> 4]
  /\ gridScale \in GridSteps
  /\ bpc = "start"
  /\ occupied = <<>>
  /\ rulesIndices = <<>>
  /\ frontier = <<>>
  /\ heap = config.rules
  /\ rulesRef = [n \in 1..Len(config.rules) |-> n]
  /\ prevRef = <<>>
  /\ prevSeen = <<>>
  /\ event = [type |-> "mount", index |-> -1, cell |-> <<>>]
  /\ error = "null"
  /\ edits = 0
  /\ reading = <<>>
  /\ timers = 0
  /\ isGenerating = FALSE
  /\ activeTab = "builder"
  /\ aiCall = NoCall
  /\ pc = "unmounted"
  /\ i = 0
  /\ currentLevelMatrices = <<>>
  /\ allMatrices = <<>>
  /\ warnedAt = -1
  /\ matrices = <<>>

FrontierNext == MarkRules \/ MarkParent \/ FindFrontier

SpecFrontier == FrontierInit /\ [][FrontierNext]_vars

----------------------------------------------------------------------------
(* Rule edits.  A rule is an object and config.rules an array of object    *)
(* references: `heap` holds the objects by address and `rulesRef` the       *)
(* addresses in the array, so that config.rules = deref(rulesRef, heap).    *)
(* A handler runs between two renders, on the config of the last render     *)
(* (bpc = "done"), and its setConfig starts the next one (bpc = "start").   *)

MaxEdits == 4    \* handler calls in one session
MaxClicks == 2   \* frontier cells open to a click: the first MaxClicks and the last

\* types.ts:17-24
INITIAL_CONFIG == [rules |-> <<>>, iterations |-> 4]

\* the rules an array of references holds
deref(refs, h) == [n \in 1..Len(refs) |-> h[refs[n]]]

\* parseFloat of the text of a number input: empty, or a decimal literal
\* [-]digits[.digits]; the value in thousandths
parseFloat(str) ==
  LET neg   == Len(str) > 0 /\ str[1] = "-"
      body  == IF neg THEN Tail(str) ELSE str
      dots  == { n \in 1..Len(body) : body[n] = "." }
      dot   == IF dots = {} THEN Len(body) + 1
               ELSE CHOOSE n \in dots : \A m \in dots : n <= m
      whole == SubSeq(body, 1, dot - 1)
      frac  == SubSeq(body, dot + 1, Len(body))
      milli == NatValue(SubSeq(frac \o <<"0", "0", "0">>, 1, 3))
  IN  IF Len(whole) + Len(frac) = 0 THEN NaN
      ELSE (IF neg THEN -1 ELSE 1) * (1000 * NatValue(whole) + milli)

\* (variant: the builder's rule at the origin, whatever the cell)
newRuleAtOrigin(pos, step) == [position |-> <<0, 0, 0>>, rotation |-> <<0, 0, 0>>, scale |-> step]

\* (variant: the builder's rule with the panel's scale)
newRuleHalfScale(pos, step) == [position |-> pos, rotation |-> <<0, 0, 0>>, scale |-> 500]

\* RuleBuilder.tsx:97, the object literal
newRule(pos, step) == [position |-> pos, rotation |-> <<0, 0, 0>>, scale |-> step]

\* (variant: the filter dropping the element after the index)
filterOutNext(refs, index) ==
  IF index + 1 \in 1..(Len(refs) - 1)
  THEN [n \in 1..(Len(refs) - 1) |-> IF n <= index + 1 THEN refs[n] ELSE refs[n + 1]]
  ELSE refs

\* rules.filter((_, i) => i !== index), RuleBuilder.tsx:101 and
\* UIOverlay.tsx:51: a new array without the element at index (from 0)
filterOut(refs, index) ==
  IF index \in 0..(Len(refs) - 1)
  THEN [n \in 1..(Len(refs) - 1) |-> IF n <= index THEN refs[n] ELSE refs[n + 1]]
  ELSE refs

\* the event record of a handler call
Event(type, index, cell) == [type |-> type, index |-> index, cell |-> cell]

\* setConfig with a rules array newRefs over the objects newHeap and an
\* iteration count: the new config is installed and the next render begins;
\* the frontier memo of the last render still holds the array it was
\* computed from
setConfig(newHeap, newRefs, iterations, ev) ==
  /\ edits < MaxEdits
  /\ edits' = edits + 1
  /\ heap' = newHeap
  /\ rulesRef' = newRefs
  /\ prevRef' = rulesRef
  /\ prevSeen' = config.rules
  /\ config' = [rules |-> deref(newRefs, newHeap), iterations |-> iterations]
  /\ event' = ev
  /\ bpc' = "start"
  /\ UNCHANGED <<genVars, gridScale, occupied, rulesIndices, frontier, aiVars>>

\* setConfig({...config, rules: ...}) of the rule handlers
setRules(newHeap, newRefs, ev) ==
  /\ setConfig(newHeap, newRefs, config.iterations, ev)
  /\ UNCHANGED <<error, reading, timers>>

\* the frontier entries a click is tried on
Clickable == { n \in 1..Len(frontier) : n <= MaxClicks \/ n = Len(frontier) }

\* RuleBuilder.tsx:96-98, called at line 169 with f.position of the n-th
\* frontier entry; then geminiService.ts:140-142
HandleAdd(n) ==
  /\ bpc = "done"
  /\ n \in 1..Len(frontier)
  /\ setRules(Append(heap, newRule(frontier[n].position, gridScale)),
              Append(rulesRef, Len(heap) + 1),
              Event("handleAdd", -1, frontier[n].indices))

\* RuleBuilder.tsx:100-103, called at line 148 with the index of a rule;
\* then geminiService.ts:140-142
HandleRemove(index) ==
  /\ bpc = "done"
  /\ index \in 0..(Len(config.rules) - 1)
  /\ setRules(heap, filterOut(rulesRef, index), Event("handleRemove", index, <<>>))

\* UIOverlay.tsx:43-48
AddRule ==
  /\ bpc = "done"
  /\ setRules(Append(heap, RuleD), Append(rulesRef, Len(heap) + 1), Event("addRule", -1, <<>>))

\* UIOverlay.tsx:50-53
RemoveRule(index) ==
  /\ bpc = "done"
  /\ index \in 0..(Len(config.rules) - 1)
  /\ setRules(heap, filterOut(rulesRef, index), Event("removeRule", index, <<>>))

\* UIOverlay.tsx:274
ClearAll ==
  /\ bpc = "done"
  /\ setRules(heap, <<>>, Event("clearAll", -1, <<>>))

\* UIOverlay.tsx:31-41: newRules is a new array over the same rule objects
\* (line 32), and lines 35 and 38 assign into the object newRules[index]
HandleUpdateRule(index, field, value, subIndex) ==
  /\ bpc = "done"
  /\ index \in 0..(Len(config.rules) - 1)
  /\ LET newRules == rulesRef
         target == newRules[index + 1]
     IN  setRules(
           IF field \in {"position", "rotation"}
           THEN [heap EXCEPT ![target][field][subIndex + 1] = parseFloat(value)]
           ELSE [heap EXCEPT ![target][field] = parseFloat(value)],
           newRules,
           Event("handleUpdateRule", index, <<>>))

----------------------------------------------------------------------------
(* Loading a config: file import (UIOverlay.tsx:71-93), paste               *)
(* (UIOverlay.tsx:120-136) and the URL parameter c (geminiService.ts:90-107) *)
(* A text is what decoding and JSON.parse make of it: a failure, or a JSON   *)
(* value, of which the type, the `rules` property and `iterations` count.    *)

MaxReads == 1   \* file reads in flight at a time

\* a JSON value: its type; for an object, the type of its property `rules`
\* ("undefined" when it has none), the items of an array `rules`, and
\* `iterations`
Json(type, rulesType, items, iterations) ==
  [type |-> type, rulesType |-> rulesType, items |-> items, iterations |-> iterations]

\* a text that does not parse, and a text that parses to a value
Unparsable == [ok |-> FALSE, value |-> Json("undefined", "undefined", <<>>, 0)]
Parses(value) == [ok |-> TRUE, value |-> value]

LoadTexts ==
  { Unparsable,
    Parses(Json("null", "undefined", <<>>, 0)),
    Parses(Json("number", "undefined", <<>>, 0)),
    Parses(Json("array", "undefined", <<>>, 0)),
    Parses(Json("object", "undefined", <<>>, 4)),
    Parses(Json("object", "string", <<>>, 4)),
    Parses(Json("object", "array", <<>>, 2)),
    Parses(Json("object", "array", <<RuleA>>, 3)),
    Parses(Json("object", "array", <<RuleD, RuleB>>, 1)) }

\* `parsed && Array.isArray(parsed.rules)`, UIOverlay.tsx:79, 126 and
\* geminiService.ts:99: null is falsy, and only an object has a property
\* `rules` that can be an array
hasArrayRules(parsed) ==
  /\ parsed.type # "null"
  /\ parsed.type = "object"
  /\ parsed.rulesType = "array"

\* the new objects of a parsed rules array, after those alive
loadedRefs(items) == [n \in 1..Len(items) |-> Len(heap) + n]

\* geminiService.ts:90-107, the initializer of the config state, run once
\* at mount with the text of the URL parameter c, or without one
InitConfig(hasParam, text) ==
  /\ bpc = "unmounted"
  /\ IF hasParam /\ text.ok /\ hasArrayRules(text.value)
     THEN /\ config' = [rules |-> text.value.items, iterations |-> text.value.iterations]
          /\ heap' = text.value.items
          /\ rulesRef' = [n \in 1..Len(text.value.items) |-> n]
     ELSE /\ config' = INITIAL_CONFIG
          /\ heap' = <<>>
          /\ rulesRef' = <<>>
  /\ event' = Event("initConfig", -1, <<>>)
  /\ bpc' = "start"
  /\ UNCHANGED <<genVars, gridScale, occupied, rulesIndices, frontier,
                 prevRef, prevSeen, error, edits, reading, timers, aiVars>>

\* UIOverlay.tsx:71-75 and 90-92: a file was chosen and its read begins
HandleFileChange(text) ==
  /\ bpc = "done"
  /\ edits < MaxEdits
  /\ Len(reading) < MaxReads
  /\ reading' = Append(reading, text)
  /\ UNCHANGED <<config, genVars, builderVars, heap, rulesRef, prevRef, prevSeen,
                 event, error, edits, timers, aiVars>>

\* UIOverlay.tsx:76-89, reader.onload for the k-th read in flight
ReaderOnLoad(k) ==
  /\ bpc = "done"
  /\ k \in 1..Len(reading)
  /\ reading' = [n \in 1..(Len(reading) - 1) |-> IF n < k THEN reading[n] ELSE reading[n + 1]]
  /\ IF ~reading[k].ok
     THEN /\ error' = "Error parsing JSON file."
          /\ UNCHANGED <<config, genVars, builderVars, heap, rulesRef, prevRef, prevSeen,
                         event, edits, timers, aiVars>>
     ELSE IF hasArrayRules(reading[k].value)
     THEN /\ setConfig(heap \o reading[k].value.items, loadedRefs(reading[k].value.items),
                       reading[k].value.iterations, Event("handleFileChange", -1, <<>>))
          /\ error' = "Fractal loaded successfully!"
          /\ timers' = timers + 1
     ELSE /\ error' = "Invalid fractal file format."
          /\ UNCHANGED <<config, genVars, builderVars, heap, rulesRef, prevRef, prevSeen,
                         event, edits, timers, aiVars>>

\* UIOverlay.tsx:120-136.  Inside the component `prompt` is the state of
\* line 27, a string: the call of line 122 throws a TypeError, whatever
\* the text at hand, and the catch of line 133 answers it
HandlePasteData(text) ==
  /\ bpc = "done"
  /\ edits < MaxEdits
  /\ edits' = edits + 1
  /\ error' = "Failed to parse text data."
  /\ UNCHANGED <<config, genVars, builderVars, heap, rulesRef, prevRef, prevSeen,
                 event, reading, timers, aiVars>>

\* the callback of setTimeout(() => setError(null), 3000), UIOverlay.tsx:82
ErrorTimeout ==
  /\ timers > 0
  /\ timers' = timers - 1
  /\ error' = "null"
  /\ UNCHANGED <<config, genVars, builderVars, heap, rulesRef, prevRef, prevSeen,
                 event, edits, reading, aiVars>>

LoadInit ==
  /\ config = INITIAL_CONFIG
  /\ gridScale = 333
  /\ bpc = "unmounted"
  /\ occupied = <<>>
  /\ rulesIndices = <<>>
  /\ frontier = <<>>
  /\ heap = <<>>
  /\ rulesRef = <<>>
  /\ prevRef = <<>>
  /\ prevSeen = <<>>
  /\ event = Event("mount", -1, <<>>)
  /\ error = "null"
  /\ edits = 0
  /\ reading = <<>>
  /\ timers = 0
  /\ isGenerating = FALSE
  /\ activeTab = "builder"
  /\ aiCall = NoCall
  /\ pc = "unmounted"
  /\ i = 0
  /\ currentLevelMatrices = <<>>
  /\ allMatrices = <<>>
  /\ warnedAt = -1
  /\ matrices = <<>>

LoadNext ==
  \/ \E text \in LoadTexts : InitConfig(TRUE, text)
  \/ InitConfig(FALSE, Unparsable)
  \/ \E text \in LoadTexts : HandleFileChange(text)
  \/ \E k \in 1..MaxReads : ReaderOnLoad(k)
  \/ \E text \in LoadTexts : HandlePasteData(text)
  \/ ErrorTimeout
  \/ MarkRules
  \/ MarkParent
  \/ FindFrontier

SpecLoad == LoadInit /\ [][LoadNext]_vars

----------------------------------------------------------------------------
(* The builder alone: adds at frontier cells and removes, from no rules *)

BuilderInit ==
  /\ config = INITIAL_CONFIG
  /\ gridScale \in GridSteps
  /\ bpc = "start"
  /\ occupied = <<>>
  /\ rulesIndices = <<>>
  /\ frontier = <<>>
  /\ heap = <<>>
  /\ rulesRef = <<>>
  /\ prevRef = <<>>
  /\ prevSeen = <<>>
  /\ event = Event("mount", -1, <<>>)
  /\ error = "null"
  /\ edits = 0
  /\ reading = <<>>
  /\ timers = 0
  /\ isGenerating = FALSE
  /\ activeTab = "builder"
  /\ aiCall = NoCall
  /\ pc = "unmounted"
  /\ i = 0
  /\ currentLevelMatrices = <<>>
  /\ allMatrices = <<>>
  /\ warnedAt = -1
  /\ matrices = <<>>

BuilderNext ==
  \/ MarkRules
  \/ MarkParent
  \/ FindFrontier
  \/ \E n \in Clickable : HandleAdd(n)
  \/ \E index \in 0..(MaxEdits - 1) : HandleRemove(index)

SpecBuilder == BuilderInit /\ [][BuilderNext]_vars

----------------------------------------------------------------------------
(* The panel and the builder together: every edit of the rule set *)

\* what a number input of the panel hands to handleUpdateRule: the text of
\* the input, empty when the user has emptied it
EditTexts == { <<>>, <<"0", ".", "5">> }

\* the inputs of a rule in the panel, UIOverlay.tsx:385-405: the three
\* axes of the position, and the scale
EditFields == { <<"position", 0>>, <<"position", 1>>, <<"position", 2>>, <<"scale", -1>> }

EditorInit ==
  /\ BuilderInit
  /\ gridScale = 333

EditorNext ==
  \/ MarkRules
  \/ MarkParent
  \/ FindFrontier
  \/ \E n \in Clickable : HandleAdd(n)
  \/ \E index \in 0..(MaxEdits - 1) : HandleRemove(index)
  \/ AddRule
  \/ \E index \in 0..(MaxEdits - 1) : RemoveRule(index)
  \/ ClearAll
  \/ \E index \in 0..(MaxEdits - 1), f \in EditFields, value \in EditTexts :
       HandleUpdateRule(index, f[1], value, f[2])

SpecEditor == EditorInit /\ [][EditorNext]_vars

----------------------------------------------------------------------------
(* Generating a config: generateFractalConfig (geminiService.ts:4-75) and *)
(* handleGenerateAI (geminiService.ts:116-138)                             *)

\* a rule of an answer with a position of two numbers and a scale of 0
RuleShort == [position |-> <<0, 500>>, rotation |-> <<0, 0, 0>>, scale |-> 0]

\* the texts a model's answer can be
AITexts ==
  { Unparsable,
    Parses(Json("null", "undefined", <<>>, 0)),
    Parses(Json("object", "undefined", <<>>, 4)),
    Parses(Json("object", "string", <<>>, 4)),
    Parses(Json("object", "array", <<>>, 2)),
    Parses(Json("object", "array", <<RuleShort, RuleB>>, 6)) }

\* how a call of generateFractalConfig can go: no API key (lines 5-7), the
\* request fails (the await of line 26 throws), the response has no text
\* (lines 55-57), or it has one
AIAnswer(kind, text) == [kind |-> kind, text |-> text]
AIAnswers ==
  { AIAnswer("noKey", Unparsable), AIAnswer("requestFailed", Unparsable),
    AIAnswer("noText", Unparsable) }
  \cup { AIAnswer("text", text) : text \in AITexts }

\* `v[a] || 0`, lines 65-66: a missing entry and 0 give 0
orZero(v, a) == IF a <= Len(v) /\ v[a] # 0 /\ v[a] # NaN THEN v[a] ELSE 0

\* the callback of data.rules.map, lines 64-68
mapRule(r) ==
  [position |-> <<orZero(r.position, 1), orZero(r.position, 2), orZero(r.position, 3)>>,
   rotation |-> <<orZero(r.rotation, 1), orZero(r.rotation, 2), orZero(r.rotation, 3)>>,
   scale |-> IF r.scale # 0 /\ r.scale # NaN THEN r.scale ELSE 500]

\* lines 59-74: JSON.parse and data.rules.map go through, which takes a
\* text that parses to an object whose `rules` is an array; else the catch
\* of line 71 throws
answerMaps(answer) ==
  /\ answer.kind = "text"
  /\ answer.text.ok
  /\ answer.text.value.type = "object"
  /\ answer.text.value.rulesType = "array"

\* the promise of generateFractalConfig once settled: resolved with the
\* rules of line 64, or rejected
settled(answer) ==
  IF answerMaps(answer)
  THEN [state |-> "resolved",
        rules |-> [n \in 1..Len(answer.text.value.items) |-> mapRule(answer.text.value.items[n])]]
  ELSE [state |-> "rejected", rules |-> <<>>]

\* the values of the iterations slider, UIOverlay.tsx:333-339
SliderRange == 1..6

\* UIOverlay.tsx:339: the config again with another iteration count and the
\* same rules array, so the frontier memo keeps its value
SetIterations(n) ==
  /\ activeTab = "render"
  /\ bpc = "done"
  /\ config' = [config EXCEPT !.iterations = n]
  /\ UNCHANGED <<genVars, builderVars, appVars, aiVars>>

\* UIOverlay.tsx:201, 207, 213; the builder is mounted with its tab
\* (geminiService.ts:155) and computes its frontier when it mounts
SetActiveTab(tab) ==
  /\ bpc = "done"
  /\ tab # activeTab
  /\ activeTab' = tab
  /\ bpc' = IF tab = "builder" THEN "start" ELSE bpc
  /\ UNCHANGED <<config, genVars, gridScale, occupied, rulesIndices, frontier, appVars,
                 isGenerating, aiCall>>

\* a render without the builder (geminiService.ts:155): no frontier memo
RenderWithoutBuilder ==
  /\ activeTab # "builder"
  /\ bpc = "start"
  /\ bpc' = "done"
  /\ UNCHANGED <<config, genVars, gridScale, occupied, rulesIndices, frontier, appVars, aiVars>>

\* (variant: line 117 missing)
HandleGenerateAINoFlag ==
  /\ activeTab = "ai"
  /\ bpc = "done"
  /\ aiCall.state = "idle"
  /\ edits < MaxEdits
  /\ edits' = edits + 1
  /\ isGenerating' = isGenerating
  /\ error' = "null"
  /\ aiCall' = [state |-> "pending", rules |-> <<>>]
  /\ UNCHANGED <<config, genVars, builderVars, heap, rulesRef, prevRef, prevSeen, event,
                 reading, timers, activeTab>>

\* lines 116-120, up to the await; the button of UIOverlay.tsx:296-298 is
\* in the AI tab and disabled while isGenerating
HandleGenerateAI ==
  /\ activeTab = "ai"
  /\ bpc = "done"
  /\ ~isGenerating
  /\ edits < MaxEdits
  /\ edits' = edits + 1
  /\ isGenerating' = TRUE
  /\ error' = "null"
  /\ aiCall' = [state |-> "pending", rules |-> <<>>]
  /\ UNCHANGED <<config, genVars, builderVars, heap, rulesRef, prevRef, prevSeen, event,
                 reading, timers, activeTab>>

\* the awaited promise settles, between two renders
GenerateSettles(answer) ==
  /\ aiCall.state = "pending"
  /\ bpc = "done"
  /\ aiCall' = settled(answer)
  /\ UNCHANGED <<config, genVars, builderVars, appVars, isGenerating, activeTab>>

\* (variant: line 129 missing, the iteration count is kept)
GenerateAIResolvedKeepIterations ==
  /\ aiCall.state = "resolved"
  /\ heap' = heap \o aiCall.rules
  /\ rulesRef' = loadedRefs(aiCall.rules)
  /\ prevRef' = rulesRef
  /\ prevSeen' = config.rules
  /\ config' = [rules |-> aiCall.rules, iterations |-> config.iterations]
  /\ event' = Event("handleGenerateAI", -1, <<>>)
  /\ bpc' = "start"
  /\ activeTab' = "render"
  /\ isGenerating' = FALSE
  /\ aiCall' = NoCall
  /\ UNCHANGED <<genVars, gridScale, occupied, rulesIndices, frontier, error, edits,
                 reading, timers>>

\* lines 121-131 after the await, then the finally of lines 135-137; the
\* rules of a resolved call are an array (line 64), which `||` keeps
GenerateAIResolved ==
  /\ aiCall.state = "resolved"
  /\ heap' = heap \o aiCall.rules
  /\ rulesRef' = loadedRefs(aiCall.rules)
  /\ prevRef' = rulesRef
  /\ prevSeen' = config.rules
  /\ config' = [rules |-> aiCall.rules, iterations |-> 4]
  /\ event' = Event("handleGenerateAI", -1, <<>>)
  /\ bpc' = "start"
  /\ activeTab' = "render"
  /\ isGenerating' = FALSE
  /\ aiCall' = NoCall
  /\ UNCHANGED <<genVars, gridScale, occupied, rulesIndices, frontier, error, edits,
                 reading, timers>>

\* (variant: setIsGenerating(false) at the end of the try, no finally)
GenerateAIRejectedNoFinally ==
  /\ aiCall.state = "rejected"
  /\ error' = "Failed to generate fractal. Please check API Key or try again."
  /\ isGenerating' = isGenerating
  /\ aiCall' = NoCall
  /\ UNCHANGED <<config, genVars, builderVars, heap, rulesRef, prevRef, prevSeen, event,
                 edits, reading, timers, activeTab>>

\* the catch of lines 132-134, then the finally of lines 135-137
GenerateAIRejected ==
  /\ aiCall.state = "rejected"
  /\ error' = "Failed to generate fractal. Please check API Key or try again."
  /\ isGenerating' = FALSE
  /\ aiCall' = NoCall
  /\ UNCHANGED <<config, genVars, builderVars, heap, rulesRef, prevRef, prevSeen, event,
                 edits, reading, timers, activeTab>>

AIInit == EditorInit

AINext ==
  \/ activeTab = "builder" /\ MarkRules
  \/ MarkParent
  \/ FindFrontier
  \/ RenderWithoutBuilder
  \/ \E tab \in {"ai", "render", "builder"} : SetActiveTab(tab)
  \/ \E n \in SliderRange : SetIterations(n)
  \/ HandleGenerateAI
  \/ \E answer \in AIAnswers : GenerateSettles(answer)
  \/ GenerateAIResolved
  \/ GenerateAIRejected

\* the continuation of an await runs once the promise has settled, and a
\* render runs to its end
SpecAI ==
  /\ AIInit
  /\ [][AINext]_vars
  /\ WF_vars(GenerateAIResolved)
  /\ WF_vars(GenerateAIRejected)

----------------------------------------------------------------------------
(* Properties of the generator *)

RECURSIVE Pow(_, _)
Pow(b, n) == IF n = 0 THEN 1 ELSE b * Pow(b, n - 1)

\* 1 + b + b^2 + ... + b^n
RECURSIVE GeomSum(_, _)
GeomSum(b, n) == IF n = 0 THEN 1 ELSE GeomSum(b, n - 1) + Pow(b, n)

ruleCount == Len(config.rules)

\* C1: the accumulated list, and so the list returned, never holds more
\* than MAX_INSTANCES transforms, whatever the rule set and iteration count;
\* and a pass that the test of line 51 lets through appends a level with
\* which the accumulation still holds at most MAX_INSTANCES.
C1_CapNeverExceeded ==
  /\ Len(allMatrices) <= MAX_INSTANCES
  /\ Len(matrices) <= MAX_INSTANCES
  /\ ( /\ pc = "loop"
       /\ loopCondition(i, config.iterations)
       /\ ~capExceeded(projectedCount(allMatrices, currentLevelMatrices, config.rules)) )
       => Len(allMatrices) + Len(currentLevelMatrices) * ruleCount <= MAX_INSTANCES

\* the generator returned within the cap a list that one more level would
\* have taken above it
C1_Witness ==
  /\ pc = "done"
  /\ warnedAt >= 0
  /\ Len(matrices) <= MAX_INSTANCES
  /\ Len(matrices) + Len(currentLevelMatrices) * ruleCount > MAX_INSTANCES

\* C2: in every pass of the loop, projected = accumulated + level size * rule
\* count decides the pass: if projected <= MAX_INSTANCES the whole new level
\* (level size * rule count transforms) is appended and the loop goes on; if
\* projected > MAX_INSTANCES the generator returns the accumulation as it
\* stands, nothing of this or a later level in it.
C2_CapDecidesEachLevel ==
  [][ (pc = "loop" /\ i < config.iterations) =>
        LET projected == Len(allMatrices) + Len(currentLevelMatrices) * ruleCount
        IN  IF projected <= MAX_INSTANCES
            THEN /\ pc' = "loop"
                 /\ Len(currentLevelMatrices') = Len(currentLevelMatrices) * ruleCount
                 /\ allMatrices' = allMatrices \o currentLevelMatrices'
                 /\ Len(allMatrices') = projected
            ELSE /\ pc' = "done"
                 /\ allMatrices' = allMatrices
                 /\ matrices' = allMatrices
                 /\ Len(matrices') = GeomSum(ruleCount, i) ]_vars

\* the cap stopped the expansion after at least one level had been appended
C2_Witness ==
  /\ pc = "done"
  /\ warnedAt >= 1
  /\ matrices = allMatrices
  /\ Len(matrices) = GeomSum(ruleCount, warnedAt)
  /\ Len(matrices) < MAX_INSTANCES

\* C3: with r >= 1 rules and n >= 0 iterations, as long as the cap has not
\* stopped the expansion, level d holds r^d transforms and the accumulation
\* 1 + r + ... + r^d; the list returned holds 1 + r + ... + r^n.
C3_GeometricCount ==
  (ruleCount >= 1 /\ config.iterations >= 0 /\ pc \in {"loop", "done"} /\ warnedAt = -1) =>
     /\ Len(currentLevelMatrices) = Pow(ruleCount, i)
     /\ Len(allMatrices) = GeomSum(ruleCount, i)
     /\ pc = "done" => /\ i = config.iterations
                       /\ Len(matrices) = GeomSum(ruleCount, config.iterations)

\* an uncapped run of three or more levels over two or more rules
C3_Witness ==
  /\ pc = "done"
  /\ warnedAt = -1
  /\ ruleCount >= 2
  /\ config.iterations >= 3
  /\ Len(matrices) = GeomSum(ruleCount, config.iterations)

\* C4: with iterations = 0 the generator returns the identity alone.
C4_ZeroIterations ==
  (pc = "done" /\ config.iterations = 0) => matrices = <<Identity>>

\* zero iterations over a non-empty rule set
C4_Witness ==
  pc = "done" /\ config.iterations = 0 /\ ruleCount >= 2 /\ matrices = <<Identity>>

\* C5: with no rules the accumulation never grows beyond the root, the loop
\* makes at most `iterations` passes and can always take its next step, and
\* the list returned is the identity alone.
C5_EmptyRules ==
  ruleCount = 0 =>
     /\ pc \in {"loop", "done"} =>
          /\ allMatrices = <<Identity>>
          /\ i <= (IF config.iterations > 0 THEN config.iterations ELSE 0)
     /\ pc = "done" => matrices = <<Identity>> /\ warnedAt = -1
     /\ pc # "done" => ENABLED GenNext

\* an empty rule set run to the end of several passes
C5_Witness ==
  /\ pc = "done"
  /\ ruleCount = 0
  /\ config.iterations >= 3
  /\ i = config.iterations
  /\ matrices = <<Identity>>

\* C6: a negative iteration count is never answered with the single-root
\* result that iterations = 0 gives.
C6_NegativeRejected ==
  config.iterations < 0 => ~(pc = "done" /\ matrices = <<Identity>>)

\* index in the output, from 0, of the first transform of level d
LevelStart(d) == IF d = 0 THEN 0 ELSE GeomSum(ruleCount, d - 1)

\* C7: the output is the root, then level 1, then level 2, ...; inside level
\* d the transform at offset p * r + q is the child of the p-th transform of
\* level d - 1 under the q-th rule (p, q counted from 0, r the rule count).
C7_ParentMajorOrder ==
  pc = "done" =>
     LET r == ruleCount
         rules == config.rules
         locals == [q \in 1..r |-> localTransform(rules[q])]
     IN  /\ matrices[1] = Identity
         /\ Len(matrices) = GeomSum(r, i)
         /\ \A d \in 1..i :
              LET start == LevelStart(d)
                  before == LevelStart(d - 1)
              IN  \A o \in 0..(Pow(r, d) - 1) :
                    matrices[start + o + 1]
                      = childMatrix(matrices[before + (o \div r) + 1], locals[(o % r) + 1])

\* two levels over several rules, where parent-major and rule-major differ
C7_Witness ==
  /\ pc = "done"
  /\ ruleCount >= 2
  /\ i >= 2
  /\ matrices[LevelStart(2) + 2]
       = childMatrix(matrices[2], localTransform(config.rules[2]))
  /\ matrices[LevelStart(2) + 2]
       # childMatrix(matrices[3], localTransform(config.rules[1]))

ZeroRotation(rule) == rule.rotation = <<0, 0, 0>>

\* C8: over rules without rotation every transform is a uniform scale S and
\* a translation P, and the child of (P, S) under the rule (p, s) is
\* (P + S p, S s); the single rule ([0, 0.5, 0], 0.5) with two iterations
\* gives three transforms at Y = 0, 0.5, 0.75 with scales 1, 0.5, 0.25.
C8_ComposedTransform ==
  pc = "done" =>
     /\ (\A q \in 1..ruleCount : ZeroRotation(config.rules[q])) =>
          LET r == ruleCount
              rules == config.rules
          IN  \A d \in 1..i :
                LET start == LevelStart(d)
                    before == LevelStart(d - 1)
                IN  \A o \in 0..(Pow(r, d) - 1) :
                      LET child  == matrices[start + o + 1]
                          parent == matrices[before + (o \div r) + 1]
                          rule   == rules[(o % r) + 1]
                      IN  /\ child[1] = (parent[1] * rule.scale) \div 1000
                          /\ child[6] = child[1]
                          /\ child[11] = child[1]
                          /\ \A a \in 1..3 :
                               child[12 + a]
                                 = parent[12 + a] + (parent[1] * rule.position[a]) \div 1000
     /\ (config.rules = <<RuleA>> /\ config.iterations = 2) =>
          /\ Len(matrices) = 3
          /\ <<matrices[1][14], matrices[2][14], matrices[3][14]>>
               = <<0, Den \div 2, (3 * Den) \div 4>>
          /\ <<matrices[1][1], matrices[2][1], matrices[3][1]>>
               = <<Den, Den \div 2, Den \div 4>>
          /\ \A k \in 1..3 : matrices[k][13] = 0 /\ matrices[k][15] = 0

\* the scenario of the specification, run to its end
C8_Witness ==
  /\ pc = "done"
  /\ config.rules = <<RuleA>>
  /\ config.iterations = 2
  /\ matrices[3][14] = (3 * Den) \div 4

----------------------------------------------------------------------------
(* Properties of the frontier engine *)

\* the cells of the rule positions
RuleCells == { ruleCell(config.rules[n], gridScale) : n \in 1..Len(config.rules) }

\* the cells whose centre lies inside the parent unit volume, looked for in
\* a box one cell wider than the search window on every side
ParentCells ==
  LET side == (-(checkRange(gridScale) + 1))..(checkRange(gridScale) + 1)
  IN  { c \in side \X side \X side : insideParent(c[1], c[2], c[3], gridScale) }

OccupiedCells == RuleCells \cup ParentCells

FrontierCells == { frontier[n].indices : n \in 1..Len(frontier) }

\* the six unit steps along one axis
UnitSteps ==
  { d \in (-1..1) \X (-1..1) \X (-1..1) : d[1] * d[1] + d[2] * d[2] + d[3] * d[3] = 1 }

\* C9: no cell of the frontier is occupied, neither by a rule position nor
\* by the parent unit volume.
C9_FrontierDisjoint ==
  bpc = "done" =>
     /\ FrontierCells \cap OccupiedCells = {}
     /\ \A n \in 1..Len(frontier) : ~setHas(occupied, frontier[n].id)

\* a frontier around a rule placed outside the parent volume
C9_Witness ==
  /\ bpc = "done"
  /\ RuleCells \ ParentCells # {}
  /\ \E c \in FrontierCells : \E o \in RuleCells \ ParentCells : \E d \in UnitSteps :
        c = <<o[1] + d[1], o[2] + d[2], o[3] + d[3]>>

\* C10: the frontier list holds exactly the cells that are not occupied and
\* one unit step along one axis away from an occupied cell, each once, and
\* each entry's position is toPos of its index, component by component.
C10_FrontierExact ==
  bpc = "done" =>
     /\ FrontierCells
          = { <<o[1] + d[1], o[2] + d[2], o[3] + d[3]>> : o \in OccupiedCells, d \in UnitSteps }
              \ OccupiedCells
     /\ \A n, m \in 1..Len(frontier) : n # m => frontier[n].indices # frontier[m].indices
     /\ \A n \in 1..Len(frontier) :
          \A a \in 1..3 :
             frontier[n].position[a] = frontier[n].indices[a] * gridScale + offset(gridScale)

\* a frontier cell that touches two occupied cells and is listed once
C10_Witness ==
  /\ bpc = "done"
  /\ \E c \in FrontierCells :
        /\ Cardinality({ o \in OccupiedCells : \E d \in UnitSteps :
                           c = <<o[1] + d[1], o[2] + d[2], o[3] + d[3]>> }) >= 2
        /\ Cardinality({ n \in 1..Len(frontier) : frontier[n].indices = c }) = 1

----------------------------------------------------------------------------
(* The frontier of the empty rule set, and the indexer *)

\* the number of cells along one edge of the parent unit volume
EdgeCells == invScale(gridScale)

\* the index range lo..hi of the cells inside the parent unit volume, from
\* the alignment rule: |k * step + offset| < 0.5 - e
ParentLo == -(EdgeCells \div 2)
ParentHi == ParentLo + EdgeCells - 1

\* the cells one step out of the cube (lo..hi)^3 through one of its faces
ShellCells ==
  { c \in ((ParentLo - 1)..(ParentHi + 1)) \X ((ParentLo - 1)..(ParentHi + 1))
             \X ((ParentLo - 1)..(ParentHi + 1)) :
      Cardinality({ a \in 1..3 : c[a] < ParentLo \/ c[a] > ParentHi }) = 1 }

\* C11 as stated: with no rules the frontier is the 6 cells, one through
\* each face, around the parent unit volume.
C11_SixFaceCells ==
  (bpc = "done" /\ config.rules = <<>>) =>
     /\ Len(frontier) = 6
     /\ \A c \in FrontierCells : \E d \in UnitSteps : \E o \in ParentCells :
           c = <<o[1] + d[1], o[2] + d[2], o[3] + d[3]>>

\* C11 amended: with no rules and n = round(1 / step) the occupied cells
\* are the n^3 cells (lo..hi)^3, lo = -(n div 2), hi = lo + n - 1, and the
\* frontier is exactly the n^2 empty cells through each of the 6 faces of
\* that cube, 6 n^2 cells in all (24, 54, 96 for the steps 0.5, 0.333, 0.25).
C11_ParentShell ==
  (bpc = "done" /\ config.rules = <<>>) =>
     /\ Len(occupied) = EdgeCells * EdgeCells * EdgeCells
     /\ \A x, y, z \in ParentLo..ParentHi : setHas(occupied, cellKey(x, y, z))
     /\ FrontierCells = ShellCells
     /\ Len(frontier) = 6 * EdgeCells * EdgeCells
     /\ (gridScale = 500 => ParentLo = -1 /\ ParentHi = 0 /\ Len(frontier) = 24)
     /\ (gridScale = 333 => ParentLo = -1 /\ ParentHi = 1 /\ Len(frontier) = 54)
     /\ (gridScale = 250 => ParentLo = -2 /\ ParentHi = 1 /\ Len(frontier) = 96)

\* the frontier of the empty rule set at the half step, computed
C11_Witness ==
  /\ bpc = "done"
  /\ config.rules = <<>>
  /\ gridScale = 500
  /\ Len(frontier) = 24
  /\ <<-2, -1, 0>> \in FrontierCells

BoxMargin == 3   \* cells looked at beyond 1 / step on every side

Abs(v) == IF v < 0 THEN -v ELSE v

\* a box of cells around the origin, wider than any search window
WideBox ==
  LET side == (-((1000 \div gridScale) + BoxMargin))..((1000 \div gridScale) + BoxMargin)
  IN  side \X side \X side

\* the centre of cell c lies inside the parent unit volume
CentreInside(c) == \A a \in 1..3 : Abs(toPos(c[a], gridScale)) < 500 - e

\* C12: once the parent volume is marked, every cell, inside the search
\* window or not, whose centre has all three coordinates of absolute value
\* below 0.5 - 0.001 is occupied; and no frontier cell is such a cell.
C12_ParentVolumeOccupied ==
  /\ bpc \in {"parent", "done"} =>
        \A c \in WideBox : CentreInside(c) => setHas(occupied, cellKey(c[1], c[2], c[3]))
  /\ bpc = "done" =>
        \A n \in 1..Len(frontier) : ~CentreInside(frontier[n].indices)

\* the quarter grid with rules placed: the corner cell (-2, -2, -2) of the
\* parent volume is occupied and the frontier lies outside
C12_Witness ==
  /\ bpc = "done"
  /\ gridScale = 250
  /\ Len(config.rules) >= 1
  /\ CentreInside(<<-2, -2, -2>>)
  /\ setHas(occupied, cellKey(-2, -2, -2))
  /\ Len(frontier) > 0

MaxIndex == 20   \* largest cell index tried, either sign

\* C13: at the current grid step the offset is step / 2 when round(1 / step)
\* is even and 0 otherwise, and toIndex(toPos(k)) = k for every index k; so
\* each frontier entry's position maps back to its index.
C13_RoundTrip ==
  /\ offset(gridScale) = (IF MathRound(1000, gridScale) % 2 = 0 THEN gridScale \div 2 ELSE 0)
  /\ \A k \in (-MaxIndex)..MaxIndex :
        /\ toPos(k, gridScale) = k * gridScale + offset(gridScale)
        /\ toIndex(toPos(k, gridScale), gridScale) = k
  /\ bpc = "done" =>
        \A n \in 1..Len(frontier) : \A a \in 1..3 :
           toIndex(frontier[n].position[a], gridScale) = frontier[n].indices[a]

\* a frontier entry of negative index on a grid with the half-cell offset,
\* whose position maps back to that index
C13_Witness ==
  /\ bpc = "done"
  /\ offset(gridScale) > 0
  /\ \E n \in 1..Len(frontier) :
        /\ frontier[n].indices[1] < 0
        /\ frontier[n].position[1] = toPos(frontier[n].indices[1], gridScale)
        /\ toIndex(frontier[n].position[1], gridScale) = frontier[n].indices[1]

----------------------------------------------------------------------------
(* Properties of the builder's edits *)

\* the last rule of the current sequence
LastRule == config.rules[Len(config.rules)]

\* C14: right after handleAdd on a frontier cell, the rules are the previous
\* rules, unchanged and at their indices, followed by one new rule whose
\* position is the world position of that cell, whose rotation is zero and
\* whose scale is the grid step.
C14_AddAppends ==
  (bpc = "start" /\ event.type = "handleAdd") =>
     /\ Len(config.rules) = Len(prevSeen) + 1
     /\ \A n \in 1..Len(prevSeen) : config.rules[n] = prevSeen[n]
     /\ event.cell \in FrontierCells
     /\ LastRule.position = <<toPos(event.cell[1], gridScale), toPos(event.cell[2], gridScale),
                               toPos(event.cell[3], gridScale)>>
     /\ \E n \in 1..Len(frontier) :
           frontier[n].indices = event.cell /\ frontier[n].position = LastRule.position
     /\ LastRule.rotation = <<0, 0, 0>>
     /\ LastRule.scale = gridScale

\* an add after earlier rules, on the thirds grid
C14_Witness ==
  /\ bpc = "start"
  /\ event.type = "handleAdd"
  /\ Len(prevSeen) >= 1
  /\ gridScale = 333
  /\ LastRule.scale = 333
  /\ SubSeq(config.rules, 1, Len(prevSeen)) = prevSeen

\* C15: for the rules R of any render and any cell f of its frontier, the
\* array handleAdd builds for f, filtered by handleRemove at its last index
\* Len(R), holds R again, rule for rule; and a handleRemove at the last
\* index leaves the rules before it, in order.
C15_AddThenRemove ==
  /\ bpc = "done" =>
        \A n \in 1..Len(frontier) :
           LET added == Append(rulesRef, Len(heap) + 1)
               objects == Append(heap, newRule(frontier[n].position, gridScale))
           IN  /\ Len(added) = Len(config.rules) + 1
               /\ deref(filterOut(added, Len(added) - 1), objects) = config.rules
  /\ (bpc = "start" /\ event.type = "handleRemove" /\ event.index = Len(prevSeen) - 1) =>
        config.rules = SubSeq(prevSeen, 1, Len(prevSeen) - 1)

\* a rule added by the builder was removed again at the last index, and
\* the rules before it stand
C15_Witness ==
  /\ bpc = "start"
  /\ event.type = "handleRemove"
  /\ Len(prevSeen) >= 2
  /\ event.index = Len(prevSeen) - 1
  /\ prevSeen[Len(prevSeen)].scale = gridScale
  /\ config.rules = SubSeq(prevSeen, 1, Len(prevSeen) - 1)

\* C16: in the frontier computed after a handleAdd at the cell f, f is
\* occupied and not in the frontier, and every 6-neighbour of f that is not
\* occupied is in the frontier.
C16_AddReflected ==
  (bpc = "done" /\ event.type = "handleAdd") =>
     LET f == event.cell
     IN  /\ setHas(occupied, cellKey(f[1], f[2], f[3]))
         /\ f \notin FrontierCells
         /\ \A d \in UnitSteps :
               LET nb == <<f[1] + d[1], f[2] + d[2], f[3] + d[3]>>
               IN  ~setHas(occupied, cellKey(nb[1], nb[2], nb[3])) => nb \in FrontierCells

\* the frontier after an add next to the parent volume: the cell has an
\* occupied neighbour and a free one, the free one in the frontier
C16_Witness ==
  /\ bpc = "done"
  /\ event.type = "handleAdd"
  /\ ruleCell(LastRule, gridScale) = event.cell
  /\ \E d \in UnitSteps :
        setHas(occupied, cellKey(event.cell[1] + d[1], event.cell[2] + d[2], event.cell[3] + d[3]))
  /\ \E d \in UnitSteps :
        <<event.cell[1] + d[1], event.cell[2] + d[2], event.cell[3] + d[3]>> \in FrontierCells

----------------------------------------------------------------------------
(* Loading a config *)

\* the messages the load paths show for a text they do not accept
InvalidMessages ==
  { "Invalid fractal file format.", "Error parsing JSON file.", "Failed to parse text data." }

Acceptable(text) == text.ok /\ hasArrayRules(text.value)

\* a step that loads the text on one of the three paths
LoadsByUrl(text) == InitConfig(TRUE, text)
LoadsByFile(text) == \E k \in 1..Len(reading) : reading[k] = text /\ ReaderOnLoad(k)
LoadsByPaste(text) == HandlePasteData(text)

\* C17: on each load path (file import, paste, URL parameter c) a text that
\* does not decode to a value with an array `rules` leaves the config as it
\* was and shows a message of invalid data.
C17_LoadRejected ==
  [][\A text \in LoadTexts :
       (~Acceptable(text) /\ (LoadsByUrl(text) \/ LoadsByFile(text) \/ LoadsByPaste(text)))
         => (config' = config /\ error' \in InvalidMessages)]_vars

\* the same of the file import and of paste alone, where it holds
C17_FileAndPasteRejected ==
  [][\A text \in LoadTexts :
       (~Acceptable(text) /\ (LoadsByFile(text) \/ LoadsByPaste(text)))
         => (config' = config /\ error' \in InvalidMessages)]_vars

\* the URL path keeps the config on a text it does not accept, silently
C17_UrlKeepsConfig ==
  [][\A text \in LoadTexts :
       (~Acceptable(text) /\ LoadsByUrl(text)) => (config' = INITIAL_CONFIG /\ error' = "null")]_vars

----------------------------------------------------------------------------
(* Rules with a field that is not a number *)

\* the rule has a position or a scale that is NaN
NonFinite(rule) == rule.scale = NaN \/ \E a \in 1..3 : rule.position[a] = NaN

\* C18: a rule with a non-finite field (a NaN written by handleUpdateRule
\* from an emptied input) is rejected before the frontier is computed: the
\* frontier never holds a cell whose index or world position is not a
\* finite number.
C18_NonFiniteRejected ==
  \A n \in 1..Len(frontier) : \A a \in 1..3 :
    frontier[n].indices[a] # NaN /\ frontier[n].position[a] # NaN

\* no frontier is computed from rules with a non-finite field
C18_NoFrontierFromNonFinite ==
  (bpc = "done" /\ \E n \in 1..Len(config.rules) : NonFinite(config.rules[n]))
    => frontier = <<>>

----------------------------------------------------------------------------
(* What an edit leaves of the previous config *)

\* C19: an edit of the rule set only installs a new rules value: after it,
\* the rules array the previous config held, and every rule object in it,
\* are what they were before the edit.
C19_PreviousConfigUnchanged ==
  (bpc = "start" /\ event.type # "mount") => deref(prevRef, heap) = prevSeen

\* the same of every edit but handleUpdateRule, where it holds
C19_ReplacingEditsKeepPrevious ==
  (bpc = "start" /\ event.type \notin {"mount", "handleUpdateRule"})
    => deref(prevRef, heap) = prevSeen

----------------------------------------------------------------------------
(* The rule sets the builder can make *)

\* C20: from rules = [] and with the grid step fixed, after any adds (each
\* at a cell of the frontier of the moment) and removes of the builder, no
\* two rules are in the same grid cell and no rule is in a cell inside the
\* parent unit volume.
C20_DistinctCellsOutsideParent ==
  /\ \A m, n \in 1..Len(config.rules) :
       m # n => ruleCell(config.rules[m], gridScale) # ruleCell(config.rules[n], gridScale)
  /\ \A n \in 1..Len(config.rules) : ~CentreInside(ruleCell(config.rules[n], gridScale))

\* adds and a remove have left two rules or more
C20_Witness ==
  /\ bpc = "done"
  /\ event.type = "handleRemove"
  /\ Len(config.rules) >= 2

----------------------------------------------------------------------------
(* One iteration more *)

IsPrefix(s, t) == Len(s) <= Len(t) /\ SubSeq(t, 1, Len(s)) = s

\* the run of the memo returns what the memo is as a function
GenerateIsTheRun == pc = "done" => matrices = generate(config.rules, config.iterations)

\* C21: for a rule set and n >= 0, the output for iterations = n is a prefix
\* of the output for iterations = n + 1, and the two are equal when the cap
\* check has stopped the expansion of the longer run.
C21_PrefixOfNextIteration ==
  (pc = "done" /\ config.iterations >= 1)
    => LET shorter == generate(config.rules, config.iterations - 1)
       IN  /\ IsPrefix(shorter, matrices)
           /\ warnedAt >= 0 => shorter = matrices

\* a run of two iterations or more that the cap did not stop returns more
\* than the run of one iteration less
C21_Witness ==
  /\ pc = "done"
  /\ config.iterations >= 2
  /\ warnedAt = -1
  /\ Len(matrices) > Len(generate(config.rules, config.iterations - 1))

\* a run the cap stopped returns what the run of one iteration less returns
C21_WitnessCapped ==
  /\ pc = "done"
  /\ config.iterations >= 2
  /\ warnedAt >= 1
  /\ matrices = generate(config.rules, config.iterations - 1)

----------------------------------------------------------------------------
(* handleGenerateAI *)

GenerateFailed == "Failed to generate fractal. Please check API Key or try again."

\* the steps of handleGenerateAI, by what becomes of the awaited call
AIStarts == aiCall.state = "idle" /\ aiCall'.state = "pending"
AIThrew == aiCall.state = "rejected" /\ aiCall'.state = "idle"
AIResolved == aiCall.state = "resolved" /\ aiCall'.state = "idle"

\* C22: handleGenerateAI sets isGenerating when it starts; once
\* generateFractalConfig has resolved or thrown, isGenerating is eventually
\* false again; when it throws, the config is unchanged and the error
\* message is set; when it resolves, iterations is 4 and the active tab is
\* 'render'.
C22_GenerateAI ==
  /\ [][/\ AIStarts => isGenerating'
        /\ AIThrew => (config' = config /\ error' = GenerateFailed)
        /\ AIResolved => (config'.iterations = 4 /\ activeTab' = "render")]_vars
  /\ (aiCall.state \in {"resolved", "rejected"}) ~> (isGenerating = FALSE)

\* a call that resolved has been answered from a config of another
\* iteration count and another tab
C22_Witness ==
  /\ event.type = "handleGenerateAI"
  /\ aiCall.state = "idle"
  /\ ~isGenerating
  /\ activeTab = "render"
  /\ config.iterations = 4
  /\ Len(config.rules) = 2
  /\ config.rules[1] = mapRule(RuleShort)
  /\ config.rules[1] # RuleShort

\* a call that threw has been answered
C22_WitnessThrew ==
  /\ aiCall.state = "idle"
  /\ ~isGenerating
  /\ error = GenerateFailed

=============================================================================
